---- MODULE Spec2Model ----
(***************************************************************************)
(* A model of the duplicate tweet detector (src/duplicate_detector.py):    *)
(* Tweet construction (date parsing, content normalisation), the content   *)
(* similarity score, the greedy anchor-relative clustering of              *)
(* find_duplicates, the resolution of remove_duplicates, the report of     *)
(* generate_report, and the command-line run of main with load_from_file.  *)
(*                                                                         *)
(* Conventions.  A Python str is a sequence of characters, each character  *)
(* a one-letter TLA+ string.  Python list indices are 0-based; here they   *)
(* are 1-based, so Python's index k is k+1.  Time is counted in whole      *)
(* hours since 2024-01-01 00:00, so a plain calendar date is a multiple of *)
(* 24.  A float similarity 2*M/T is kept as the exact pair <<2*M, T>>.     *)
(***************************************************************************)
EXTENDS Integers, Sequences, FiniteSets, TLC

(***************************************************************************)
(* Bounds of the model.                                                    *)
(***************************************************************************)
\* Largest number of records in an input batch.
MaxTweets == 3
\* Largest number of lines in an input file.
MaxLines == 4

(***************************************************************************)
(* Program constants.                                                      *)
(***************************************************************************)
\* content_threshold default 0.85, in hundredths.
ContentThreshold == 85
\* date_window_hours default.
DateWindowHours == 24
\* The substring override raises the score to at least 0.9 (in tenths).
SubstringFloor == 9
\* __str__ renders the first 50 characters of the content.
StrPrefixLen == 50

(***************************************************************************)
(* Characters and strings.                                                 *)
(***************************************************************************)
Min(a, b) == IF a <= b THEN a ELSE b

\* Characters matched by the regular expression class \s.
IsSpace(c) == c \in {" ", "\t", "\n"}

\* Characters matched by \w: letters, digits, underscore (the folded and
\* unfolded Arabic letters are letters too).
WordChars ==
    {"a", "b", "c", "h", "p", "s", "t", "u", "v", "w", "x", "y", "z", "_",
     "0", "1",
     "ALEF", "ALEF_HAMZA_ABOVE", "ALEF_HAMZA_BELOW", "ALEF_MADDA",
     "HEH", "TEH_MARBUTA", "YEH", "ALEF_MAKSURA", "YEH_HAMZA",
     "WAW", "WAW_HAMZA"}

IsWord(c) == c \in WordChars

\* s[from..] starts with the sequence p.
StartsWithAt(s, from, p) ==
    /\ from + Len(p) - 1 <= Len(s)
    /\ \A k \in 1..Len(p) : s[from + k - 1] = p[k]

\* Python's "a in b" for strings.
IsSubstring(a, b) ==
    \E from \in 1..(Len(b) - Len(a) + 1) : StartsWithAt(b, from, a)

\* str.strip(): drop leading and trailing whitespace.
RECURSIVE LStrip(_)
LStrip(s) ==
    IF s # <<>> /\ IsSpace(Head(s)) THEN LStrip(Tail(s)) ELSE s

RECURSIVE RStrip(_)
RStrip(s) ==
    IF s # <<>> /\ IsSpace(s[Len(s)]) THEN RStrip(SubSeq(s, 1, Len(s) - 1)) ELSE s

Strip(s) == RStrip(LStrip(s))

\* re.sub(r'\s+', ' ', s): every maximal run of whitespace becomes one space.
RECURSIVE CollapseWs(_)
CollapseWs(s) ==
    IF s = <<>> THEN <<>>
    ELSE IF IsSpace(Head(s))
         THEN <<" ">> \o CollapseWs(LStrip(s))
         ELSE <<Head(s)>> \o CollapseWs(Tail(s))

\* arabic_norm_map: the fold of one character.
FoldChar(c) ==
    CASE c \in {"ALEF_HAMZA_ABOVE", "ALEF_HAMZA_BELOW", "ALEF_MADDA"} -> "ALEF"
      [] c = "TEH_MARBUTA" -> "HEH"
      [] c \in {"ALEF_MAKSURA", "YEH_HAMZA"} -> "YEH"
      [] c = "WAW_HAMZA" -> "WAW"
      [] OTHER -> c

\* The loop of content.replace(original, normalized) over the map: every map
\* key is one character and no value is a key, so the order is immaterial.
FoldArabic(s) == [k \in 1..Len(s) |-> FoldChar(s[k])]

\* Length of the longest run of characters satisfying the class at s[from..]:
\* the greedy \S+ (nonSpace = TRUE) or \w+ (nonSpace = FALSE).
RECURSIVE RunLen(_, _, _)
RunLen(s, from, nonSpace) ==
    IF from > Len(s) THEN 0
    ELSE IF (IF nonSpace THEN ~IsSpace(s[from]) ELSE IsWord(s[from]))
         THEN 1 + RunLen(s, from + 1, nonSpace)
         ELSE 0

\* Length of the match of https?://\S+ at position from, 0 if none.
UrlMatchLen(s, from) ==
    LET http  == <<"h", "t", "t", "p">>
        https == <<"h", "t", "t", "p", "s">>
        sep   == <<":", "/", "/">>
        head  == IF StartsWithAt(s, from, https \o sep) THEN 8
                 ELSE IF StartsWithAt(s, from, http \o sep) THEN 7
                 ELSE 0
        rest  == IF head = 0 THEN 0 ELSE RunLen(s, from + head, TRUE)
    IN  IF head > 0 /\ rest > 0 THEN head + rest ELSE 0

\* re.sub(r'https?://\S+', '', s): leftmost, non-overlapping matches removed.
RECURSIVE RemoveUrlsFrom(_, _)
RemoveUrlsFrom(s, from) ==
    IF from > Len(s) THEN <<>>
    ELSE LET m == UrlMatchLen(s, from)
         IN  IF m > 0 THEN RemoveUrlsFrom(s, from + m)
             ELSE <<s[from]>> \o RemoveUrlsFrom(s, from + 1)

RemoveUrls(s) == RemoveUrlsFrom(s, 1)

\* Length of the match of @\w+ at position from, 0 if none.
MentionMatchLen(s, from) ==
    IF s[from] = "@" /\ RunLen(s, from + 1, FALSE) > 0
    THEN 1 + RunLen(s, from + 1, FALSE)
    ELSE 0

\* re.sub(r'@\w+', '', s).
RECURSIVE RemoveMentionsFrom(_, _)
RemoveMentionsFrom(s, from) ==
    IF from > Len(s) THEN <<>>
    ELSE LET m == MentionMatchLen(s, from)
         IN  IF m > 0 THEN RemoveMentionsFrom(s, from + m)
             ELSE <<s[from]>> \o RemoveMentionsFrom(s, from + 1)

RemoveMentions(s) == RemoveMentionsFrom(s, 1)

\* Tweet._normalize_content.
NormalizeContent(content) ==
    IF content = <<>> THEN <<>>
    ELSE LET collapsed == CollapseWs(Strip(content))
             folded    == FoldArabic(collapsed)
             noUrls    == RemoveUrls(folded)
             noMention == RemoveMentions(noUrls)
         IN  Strip(CollapseWs(noMention))

(***************************************************************************)
(* difflib.SequenceMatcher(None, a, b).ratio() and the similarity score.   *)
(***************************************************************************)
\* Length of the common run of a[ia..ahi] and b[jb..bhi].
RECURSIVE CommonRun(_, _, _, _, _, _)
CommonRun(a, b, ia, jb, ahi, bhi) ==
    IF ia <= ahi /\ jb <= bhi /\ a[ia] = b[jb]
    THEN 1 + CommonRun(a, b, ia + 1, jb + 1, ahi, bhi)
    ELSE 0

\* The least element of a non-empty set of integers.
SetMin(S) == CHOOSE x \in S : \A y \in S : x <= y

\* The greatest element of a non-empty set of integers.
SetMax(S) == CHOOSE x \in S : \A y \in S : x >= y

\* find_longest_match: the longest block common to a[alo..ahi] and
\* b[blo..bhi]; of the longest ones the one starting earliest in a, and of
\* those the one starting earliest in b.  <<ia, jb, k>> with k = 0 if none.
LongestMatch(a, b, alo, ahi, blo, bhi) ==
    LET sizes == {CommonRun(a, b, ia, jb, ahi, bhi) : ia \in alo..ahi, jb \in blo..bhi}
        k     == IF sizes = {} THEN 0 ELSE SetMax(sizes)
        ias   == {ia \in alo..ahi :
                    \E jb \in blo..bhi : CommonRun(a, b, ia, jb, ahi, bhi) = k}
        besti == SetMin(ias)
        jbs   == {jb \in blo..bhi : CommonRun(a, b, besti, jb, ahi, bhi) = k}
    IN  IF k = 0 THEN <<alo, blo, 0>> ELSE <<besti, SetMin(jbs), k>>

\* get_matching_blocks: total size of the blocks found by taking the longest
\* match and recursing on the pieces to its left and to its right.
RECURSIVE Matches(_, _, _, _, _, _)
Matches(a, b, alo, ahi, blo, bhi) ==
    LET m == LongestMatch(a, b, alo, ahi, blo, bhi)
    IN  IF m[3] = 0 THEN 0
        ELSE m[3]
             + Matches(a, b, alo, m[1] - 1, blo, m[2] - 1)
             + Matches(a, b, m[1] + m[3], ahi, m[2] + m[3], bhi)

\* ratio(): 2.0 * matches / (len(a) + len(b)), as the pair <<2*matches, total>>.
Ratio(a, b) == <<2 * Matches(a, b, 1, Len(a), 1, Len(b)), Len(a) + Len(b)>>

\* r >= n/d for a score r = <<num, den>>, den > 0.
ScoreGeq(r, n, d) == r[1] * d >= n * r[2]

\* Mutant of calculate_content_similarity: the substring override looks for
\* text1 in text2 only.
CalculateContentSimilarityOneWay(text1, text2) ==
    IF text1 = <<>> \/ text2 = <<>> THEN <<0, 1>>
    ELSE LET similarity == Ratio(text1, text2)
         IN  IF IsSubstring(text1, text2) /\ ~ScoreGeq(similarity, SubstringFloor, 10)
             THEN <<SubstringFloor, 10>>
             ELSE similarity

\* DuplicateDetector.calculate_content_similarity.
CalculateContentSimilarity(text1, text2) ==
    IF text1 = <<>> \/ text2 = <<>> THEN <<0, 1>>
    ELSE LET similarity == Ratio(text1, text2)
         IN  IF (IsSubstring(text1, text2) \/ IsSubstring(text2, text1))
                /\ ~ScoreGeq(similarity, SubstringFloor, 10)
             THEN <<SubstringFloor, 10>>
             ELSE similarity

(***************************************************************************)
(* Inputs.  The texts are chosen for their scores under the default        *)
(* threshold: similarity(TextA, TextB) = 0.95, similarity(TextB, TextC) =  *)
(* 0.90, similarity(TextA, TextC) = 0.40, similarity(TextA, TextD) = 0.85  *)
(* (exactly the threshold).  RawTextB is TextB as it may be posted, behind *)
(* a mention and with runs of blanks; it normalises to TextB.              *)
(***************************************************************************)
TextA == <<"c", "a", "c", "a", "c", "a", "c", "a", "c", "a", "c", "a", "c", "a", "c", "a", "c", "a", "c", "a">>
TextB == <<"c", "a", "c", "a", "c", "a", "c", "a", "c", "a", "c", "a", "x", "a", "c", "a", "c", "a", "c", "a">>
TextC == <<"c", "a", "c", "a", "c", "a", "z", "y", "c", "a", "c", "a", "x", "a", "c", "a", "c", "a", "c", "a">>
TextD == <<"c", "a", "c", "a", "c", "a", "c", "a", "c", "a", "c", "a", "c", "a", "c", "w", "c", "u", "c", "v">>
RawTextB == <<" ", "@", "a", "b", " ", " ", "c", "a", "c", "a", "c", "a", "c", "a", "c", "a", "c", "a", "x", "a", "c", "a", "c", "a", "c", "a", " ", " ">>

RawTexts == {<<>>, TextA, RawTextB, TextC, TextD}

\* Hours of the UTC-marked date-times of the inputs (01:00 on day 1).
UtcHours == {25}

\* Days of the plain calendar dates of the inputs.
PlainDays == {0, 1, 2}

\* Readings of the wall clock (datetime.now()) during a run: 23:00 on day 1
\* and 00:00 on day 2.
NowHours == {47, 48}

\* A date string, by the branch of _parse_date it takes: "isoZ" holds 'T' and
\* 'Z' and parses as ISO 8601, "ymd" is 10 characters long and parses as
\* %Y-%m-%d, "other" is any other string (neither shape, or a shape that
\* fails to parse).  t is the time the string denotes (0 for "other").
DateStrs ==
    {[form |-> "isoZ", t |-> h] : h \in UtcHours}
    \cup {[form |-> "ymd", t |-> 24 * d] : d \in PlainDays}
    \cup {[form |-> "other", t |-> 0]}

\* A raw record as handed to Tweet(date, content).
RawRecords == [date : DateStrs, content : RawTexts]

\* Every sequence over S of length at most n.
SeqsUpTo(S, n) == UNION {[1..k -> S] : k \in 0..n}

(***************************************************************************)
(* Tweet.                                                                  *)
(***************************************************************************)
\* Tweet._parse_date: a datetime is aware (UTC offset attached) or naive.
ParseDate(date_str, now) ==
    CASE date_str.form = "isoZ" -> [aware |-> TRUE, t |-> date_str.t]
      [] date_str.form = "ymd" -> [aware |-> FALSE, t |-> date_str.t]
      [] OTHER -> [aware |-> FALSE, t |-> now]

\* _normalize_content of the input texts, computed once.
NormTable == {<<x, NormalizeContent(x)>> : x \in RawTexts}

\* The call self._normalize_content(content) of __init__, read from the table
\* for a text of the table.
Normalized(content) ==
    IF \E e \in NormTable : e[1] = content
    THEN (CHOOSE e \in NormTable : e[1] = content)[2]
    ELSE NormalizeContent(content)

\* The matches of re.findall(r'@\w+', s) from position from on, in order.
RECURSIVE FindMentions(_, _)
FindMentions(s, from) ==
    IF from > Len(s) THEN <<>>
    ELSE LET m == MentionMatchLen(s, from)
         IN  IF m > 0
             THEN <<SubSeq(s, from, from + m - 1)>> \o FindMentions(s, from + m)
             ELSE FindMentions(s, from + 1)

\* The mentions matched by (?:\s+@\w+)* at position from: each a run of
\* whitespace followed by a mention.
RECURSIVE MoreLeadingMentions(_, _)
MoreLeadingMentions(s, from) ==
    LET ws == Len(SubSeq(s, from, Len(s))) - Len(LStrip(SubSeq(s, from, Len(s))))
        m  == IF from + ws > Len(s) THEN 0 ELSE MentionMatchLen(s, from + ws)
    IN  IF ws > 0 /\ m > 0
        THEN <<SubSeq(s, from + ws, from + ws + m - 1)>>
             \o MoreLeadingMentions(s, from + ws + m)
        ELSE <<>>

\* The mentions of group(1) of re.match(r'^(@\w+(?:\s+@\w+)*)\s*', s), <<>> when
\* there is no match.
LeadingMentions(s) ==
    IF s = <<>> \/ MentionMatchLen(s, 1) = 0 THEN <<>>
    ELSE <<SubSeq(s, 1, MentionMatchLen(s, 1))>>
         \o MoreLeadingMentions(s, 1 + MentionMatchLen(s, 1))

\* ', '.join(names).
RECURSIVE JoinComma(_)
JoinComma(names) ==
    IF names = <<>> THEN <<>>
    ELSE IF Len(names) = 1 THEN names[1]
    ELSE names[1] \o <<",", " ">> \o JoinComma(Tail(names))

\* list(set(names)): the distinct names in the iteration order of the set,
\* which Python leaves unspecified; CHOOSE names one such order.
DistinctInSomeOrder(names) ==
    LET S == {names[k] : k \in 1..Len(names)}
    IN  CHOOSE q \in [1..Cardinality(S) -> S] : {q[k] : k \in 1..Cardinality(S)} = S

\* Tweet._extract_reply_to.
ExtractReplyTo(content) ==
    IF content = <<>> THEN <<>>
    ELSE IF LeadingMentions(Strip(content)) # <<>>
         THEN JoinComma(LeadingMentions(Strip(content)))
         ELSE JoinComma(DistinctInSomeOrder(FindMentions(content, 1)))

\* hashlib.md5(x.encode('utf-8')).hexdigest(): a digest that stands for the
\* text hashed (distinct texts are taken to have distinct digests).
Md5(x) == <<"md5", x>>

\* strftime('%Y-%m-%d'): the calendar day of a datetime (of an aware one, in
\* its own offset, UTC).
StrftimeDay(date) == date.t \div 24

\* Tweet._generate_signature: the digest of "<day>_<content>".
GenerateSignature(date, normalized) == Md5(<<StrftimeDay(date), "_", normalized>>)

\* Tweet.get_content_hash.
GetContentHash(tweet) == Md5(tweet.content)

\* _extract_reply_to of the input texts, computed once.
ReplyTable == {<<x, ExtractReplyTo(x)>> : x \in RawTexts}

\* The call self._extract_reply_to(content) of __init__, read from the table
\* for a text of the table.
ExtractedReplyTo(content) ==
    IF \E e \in ReplyTable : e[1] = content
    THEN (CHOOSE e \in ReplyTable : e[1] = content)[2]
    ELSE ExtractReplyTo(content)

\* Tweet.__init__ with every argument given.
MakeTweetWith(date_str, content, reply_to, urls, now) ==
    LET date       == ParseDate(date_str, now)
        normalized == Normalized(content)
    IN  [date |-> date,
         original_content |-> content,
         reply_to |-> IF reply_to = <<>> THEN ExtractedReplyTo(content) ELSE reply_to,
         content |-> normalized,
         urls |-> urls,
         signature |-> GenerateSignature(date, normalized)]

\* Tweet.__init__ with reply_to and urls left to their defaults ("" and None).
MakeTweet(date_str, content, now) == MakeTweetWith(date_str, content, <<>>, <<>>, now)

\* Tweet.__str__: '%Y-%m-%d %H:%M' of the date (the UTC offset is not
\* rendered) and the first 50 characters of the content.
StrTweet(tweet) ==
    <<tweet.date.t, SubSeq(tweet.content, 1, Min(StrPrefixLen, Len(tweet.content)))>>

(***************************************************************************)
(* DuplicateDetector: similarity, date proximity, clustering, resolution.  *)
(***************************************************************************)
\* The normalised texts of the inputs, and their scores computed once.
NormTexts == {NormalizeContent(x) : x \in RawTexts}

SimTable ==
    {<<p[1], p[2], CalculateContentSimilarity(p[1], p[2])>> :
        p \in NormTexts \X NormTexts}

\* The call self.calculate_content_similarity(text1, text2) of find_duplicates,
\* read from the table for two texts of the table.
Similarity(text1, text2) ==
    IF \E e \in SimTable : e[1] = text1 /\ e[2] = text2
    THEN (CHOOSE e \in SimTable : e[1] = text1 /\ e[2] = text2)[3]
    ELSE CalculateContentSimilarity(text1, text2)

Abs(x) == IF x < 0 THEN -x ELSE x

\* date1 - date2 raises TypeError when one datetime is aware and the other
\* naive ("can't subtract offset-naive and offset-aware datetimes").
DateOpRaises(date1, date2) == date1.aware # date2.aware

\* Mutant of are_dates_close: the window taken as exclusive.
AreDatesCloseExclusive(date1, date2) == Abs(date1.t - date2.t) < DateWindowHours

\* Mutant of are_dates_close: the window taken twice as wide.
AreDatesCloseDouble(date1, date2) == Abs(date1.t - date2.t) <= 2 * DateWindowHours

\* DuplicateDetector.are_dates_close, for two datetimes that can be subtracted.
AreDatesClose(date1, date2) == Abs(date1.t - date2.t) <= DateWindowHours

\* Mutant of the inner loop: a candidate is compared with the member last
\* added to the group instead of with the anchor (chained membership).
RECURSIVE InnerLoopChained(_, _, _, _, _)
InnerLoopChained(tw, anchor, j, group, done) ==
    LET last == group[Len(group)]
    IN  IF j > Len(tw) THEN [group |-> group, processed |-> done, raised |-> FALSE]
        ELSE IF j \in done THEN InnerLoopChained(tw, anchor, j + 1, group, done)
        ELSE IF DateOpRaises(tw[last].date, tw[j].date)
             THEN [group |-> group, processed |-> done, raised |-> TRUE]
        ELSE IF ~(Abs(tw[last].date.t - tw[j].date.t) <= DateWindowHours)
             THEN InnerLoopChained(tw, anchor, j + 1, group, done)
        ELSE IF ScoreGeq(Similarity(tw[last].content, tw[j].content), ContentThreshold, 100)
             THEN InnerLoopChained(tw, anchor, j + 1, Append(group, j), done \cup {j})
        ELSE InnerLoopChained(tw, anchor, j + 1, group, done)

\* Mutant of the inner loop: a claimed candidate is not skipped.
RECURSIVE InnerLoopNoSkip(_, _, _, _, _)
InnerLoopNoSkip(tw, anchor, j, group, done) ==
    IF j > Len(tw) THEN [group |-> group, processed |-> done, raised |-> FALSE]
    ELSE IF DateOpRaises(tw[anchor].date, tw[j].date)
         THEN [group |-> group, processed |-> done, raised |-> TRUE]
    ELSE IF ~(Abs(tw[anchor].date.t - tw[j].date.t) <= DateWindowHours)
         THEN InnerLoopNoSkip(tw, anchor, j + 1, group, done)
    ELSE IF ScoreGeq(Similarity(tw[anchor].content, tw[j].content), ContentThreshold, 100)
         THEN InnerLoopNoSkip(tw, anchor, j + 1, Append(group, j), done \cup {j})
    ELSE InnerLoopNoSkip(tw, anchor, j + 1, group, done)

\* The inner loop of find_duplicates, for j in range(i + 1, n), for anchor i from j on:
\* the group and the processed set it ends with, or raised when a date
\* comparison raised.
RECURSIVE InnerLoop(_, _, _, _, _)
InnerLoop(tw, anchor, j, group, done) ==
    IF j > Len(tw) THEN [group |-> group, processed |-> done, raised |-> FALSE]
    ELSE IF j \in done THEN InnerLoop(tw, anchor, j + 1, group, done)
    ELSE IF DateOpRaises(tw[anchor].date, tw[j].date)
         THEN [group |-> group, processed |-> done, raised |-> TRUE]
    ELSE IF ~AreDatesClose(tw[anchor].date, tw[j].date)
         THEN InnerLoop(tw, anchor, j + 1, group, done)
    ELSE IF ScoreGeq(Similarity(tw[anchor].content, tw[j].content), ContentThreshold, 100)
         THEN InnerLoop(tw, anchor, j + 1, Append(group, j), done \cup {j})
    ELSE InnerLoop(tw, anchor, j + 1, group, done)

\* Mutant of the emission test: a group of one is emitted too.
EmitsGroupOfOne(group) == Len(group) >= 1

\* The test "if len(group) > 1" that emits a group.
EmitsGroup(group) == Len(group) > 1

\* The elements of a sequence.
Range(seq) == {seq[k] : k \in 1..Len(seq)}

\* min(group, key=lambda i: tweets[i].date): the first member, in the order of
\* the group, whose date no other member's date is below.
RECURSIVE MinByDate(_, _, _, _)
MinByDate(tw, group, k, best) ==
    IF k > Len(group) THEN best
    ELSE MinByDate(tw, group, k + 1,
                   IF tw[group[k]].date.t < tw[best].date.t THEN group[k] ELSE best)

\* Mutant of earliest_idx: the first member of the group (its anchor).
EarliestIdxIsAnchor(tw, group) == group[1]

EarliestIdx(tw, group) == MinByDate(tw, group, 2, group[1])

\* Mutant of to_keep: every member of a group is dropped.
ToKeepDropsWholeGroups(tw, groups) ==
    (1..Len(tw)) \ UNION {Range(groups[g]) : g \in 1..Len(groups)}

\* to_keep after the loop over the groups: every index but the members of a
\* group other than its earliest_idx.
ToKeep(tw, groups) ==
    (1..Len(tw)) \ UNION {Range(groups[g]) \ {EarliestIdx(tw, groups[g])} :
                          g \in 1..Len(groups)}

\* Mutant of sorted(to_keep): the indices in descending order.
RECURSIVE SortedDescending(_)
SortedDescending(S) ==
    IF S = {} THEN <<>> ELSE <<SetMax(S)>> \o SortedDescending(S \ {SetMax(S)})

\* sorted(S) for a set of integers.
RECURSIVE Sorted(_)
Sorted(S) ==
    IF S = {} THEN <<>> ELSE <<SetMin(S)>> \o Sorted(S \ {SetMin(S)})

\* The report of generate_report.  A Tweet object is held by its index in
\* the batch; the report holds renderings only.
MakeReport(tw, original_count, cleaned_tweets, groups) ==
    [original_count |-> original_count,
     cleaned_count |-> Len(cleaned_tweets),
     removed_count |-> original_count - Len(cleaned_tweets),
     duplicate_groups |-> Len(groups),
     duplicate_details |->
        [g \in 1..Len(groups) |->
            [group_id |-> g,
             duplicate_count |-> Len(groups[g]),
             kept_tweet |-> StrTweet(tw[groups[g][1]]),
             removed_tweets |->
                [k \in 1..(Len(groups[g]) - 1) |-> StrTweet(tw[groups[g][k + 1]])]]]]

(***************************************************************************)
(* State.                                                                  *)
(***************************************************************************)
VARIABLES
    raw,              \* the batch of raw records handed to Tweet(...)
    tweets,           \* the list of Tweet objects
    pc,               \* position of the detector
    i,                \* find_duplicates: the anchor index of the outer loop
    processed,        \* find_duplicates: the claimed indices
    duplicates,       \* find_duplicates: the groups emitted so far
    cleaned_tweets,   \* remove_duplicates: the kept tweets (by index), in order
    duplicate_groups, \* remove_duplicates: the groups (tweets by index)
    report,           \* generate_report: the report, <<>> before it is built
    input_file,       \* main: the file at args.input_file
    args,             \* main: whether --output and --report are given
    mainPc,           \* main: its position, "none" when main is not running
    pos,              \* load_from_file: index of the next line of the loop
    current_tweet,    \* load_from_file: the dict of the record being read
    written,          \* the output files written so far
    exitStatus,       \* exit status of the process, -1 while it runs
    saved,            \* save_cleaned_tweets: the list of Tweet objects it is given
    fnCall,           \* a direct call of a pure method: its name and arguments
    fnResult,         \* the value that call returned, NoResult before it returns
    max_scrolls,      \* smart_scroll_and_collect: its max_scrolls argument
    scroll_num,       \* smart_scroll_and_collect: the scroll rounds completed
    no_new_count,     \* smart_scroll_and_collect: consecutive rounds without a new tweet
    all_tweets,       \* smart_scroll_and_collect: the number of tweets collected
    scrollPc,         \* smart_scroll_and_collect: its position, "none" when not running
    loop_iterations   \* smart_scroll_and_collect: the loop iterations begun so far

detectorVars == <<raw, tweets, pc, i, processed, duplicates, cleaned_tweets,
                  duplicate_groups, report>>

cliVars == <<input_file, args, mainPc, pos, current_tweet, written, exitStatus>>

\* The variables of the save and reload run and of the direct calls.
harnessVars == <<saved, fnCall, fnResult>>

\* The variables of the scraper's scroll loop (src/main.py).
scraperVars == <<max_scrolls, scroll_num, no_new_count, all_tweets, scrollPc,
                 loop_iterations>>

vars == <<raw, tweets, pc, i, processed, duplicates, cleaned_tweets,
          duplicate_groups, report, input_file, args, mainPc, pos,
          current_tweet, written, exitStatus, saved, fnCall, fnResult,
          max_scrolls, scroll_num, no_new_count, all_tweets, scrollPc,
          loop_iterations>>

\* The scraper is not running.
ScraperIdle ==
    /\ max_scrolls = 0
    /\ scroll_num = 0
    /\ no_new_count = 0
    /\ all_tweets = 0
    /\ scrollPc = "none"
    /\ loop_iterations = 0

NoReport == <<>>

\* The empty dict {}.
EmptyDict == <<>>

\* No pure method is called directly, and none has returned.
NoCall == [name |-> "none"]

NoResult == [returned |-> FALSE]

\* No file is involved when the detector is used as a library.
NoFile == [exists |-> FALSE, readable |-> FALSE, lines |-> <<>>]

\* A caller builds a batch of Tweet objects and is about to call
\* remove_duplicates on it.
Init ==
    /\ raw \in SeqsUpTo(RawRecords, MaxTweets)
    /\ tweets = <<>>
    /\ pc = "construct"
    /\ i = 0
    /\ processed = {}
    /\ duplicates = <<>>
    /\ cleaned_tweets = <<>>
    /\ duplicate_groups = <<>>
    /\ report = NoReport
    /\ input_file = NoFile
    /\ args = [output |-> FALSE, report |-> FALSE]
    /\ mainPc = "none"
    /\ pos = 0
    /\ current_tweet = EmptyDict
    /\ written = {}
    /\ exitStatus = -1
    /\ saved = <<>>
    /\ fnCall = NoCall
    /\ fnResult = NoResult
    /\ ScraperIdle

\* The readings of the clock over n successive constructions never go back.
ClockReadings(n) ==
    {c \in [1..n -> NowHours] : \A k \in 1..(n - 1) : c[k] <= c[k + 1]}

\* tweets = [Tweet(r.date, r.content) for r in raw]
Construct ==
    /\ pc = "construct"
    /\ \E now \in ClockReadings(Len(raw)) :
          tweets' = [k \in 1..Len(raw) |->
                        MakeTweet(raw[k].date, raw[k].content, now[k])]
    /\ pc' = "call"
    /\ UNCHANGED <<raw, i, processed, duplicates, cleaned_tweets,
                   duplicate_groups, report>>
    /\ UNCHANGED cliVars
    /\ UNCHANGED harnessVars
    /\ UNCHANGED scraperVars

\* remove_duplicates, entry: the empty batch returns at once, any other
\* enters find_duplicates.
RemoveDuplicatesEntry ==
    /\ pc = "call"
    /\ IF tweets = <<>>
       THEN /\ pc' = "returned"
            /\ UNCHANGED <<i, processed, duplicates>>
       ELSE /\ pc' = "find"
            /\ i' = 1
            /\ processed' = {}
            /\ duplicates' = <<>>
    /\ UNCHANGED <<raw, tweets, cleaned_tweets, duplicate_groups, report>>
    /\ UNCHANGED cliVars
    /\ UNCHANGED harnessVars
    /\ UNCHANGED scraperVars

\* find_duplicates: one iteration of the outer loop, for anchor i.
FindAnchorStep ==
    /\ pc = "find"
    /\ i <= Len(tweets)
    /\ IF i \in processed
       THEN /\ i' = i + 1
            /\ UNCHANGED <<pc, processed, duplicates>>
       ELSE LET r == InnerLoop(tweets, i, i + 1, <<i>>, processed)
            IN  IF r.raised
                THEN /\ pc' = "raised"
                     /\ UNCHANGED <<i, processed, duplicates>>
                ELSE /\ i' = i + 1
                     /\ pc' = pc
                     /\ IF EmitsGroup(r.group)
                        THEN /\ duplicates' = Append(duplicates, r.group)
                             /\ processed' = r.processed \cup Range(r.group)
                        ELSE /\ duplicates' = duplicates
                             /\ processed' = r.processed
    /\ UNCHANGED <<raw, tweets, cleaned_tweets, duplicate_groups, report>>
    /\ UNCHANGED cliVars
    /\ UNCHANGED harnessVars
    /\ UNCHANGED scraperVars

\* find_duplicates returns and remove_duplicates resolves the groups.
Resolve ==
    /\ pc = "find"
    /\ i > Len(tweets)
    /\ duplicate_groups' = duplicates
    /\ cleaned_tweets' = Sorted(ToKeep(tweets, duplicates))
    /\ pc' = "returned"
    /\ UNCHANGED <<raw, tweets, i, processed, duplicates, report>>
    /\ UNCHANGED cliVars
    /\ UNCHANGED harnessVars
    /\ UNCHANGED scraperVars

\* generate_report(len(tweets), cleaned_tweets, duplicate_groups).
GenerateReport ==
    /\ pc = "returned"
    /\ mainPc = "none"
    /\ report' = MakeReport(tweets, Len(tweets), cleaned_tweets, duplicate_groups)
    /\ pc' = "reported"
    /\ UNCHANGED <<raw, tweets, i, processed, duplicates, cleaned_tweets,
                   duplicate_groups>>
    /\ UNCHANGED cliVars
    /\ UNCHANGED harnessVars
    /\ UNCHANGED scraperVars

Next ==
    \/ Construct
    \/ RemoveDuplicatesEntry
    \/ FindAnchorStep
    \/ Resolve
    \/ GenerateReport

Spec == Init /\ [][Next]_vars

(***************************************************************************)
(* The command-line run: main and load_from_file.                          *)
(*                                                                         *)
(* A line of the input file, after line.strip(), is held by the branch of  *)
(* the loop of load_from_file it takes:                                    *)
(*   "date"        starts with "Date:", the rest being the date string;    *)
(*   "reply"       starts with "REPLY TO:", the rest being the text;       *)
(*   "content_hdr" is "CONTENT:";     "urls_hdr" starts with "URLS:";      *)
(*   "http"        starts with "http";  "dash_http" starts with "- http";  *)
(*   "text"        any other non-empty line without '=', 'TWEET' and       *)
(*                 'Archive';                                              *)
(*   "noise"       an empty line or a line with '=', 'TWEET' or 'Archive'. *)
(***************************************************************************)
\* The date string '' and any other string of neither shape.
OtherDate == [form |-> "other", t |-> 0]

Line(kind, date, text) == [kind |-> kind, date |-> date, text |-> text]

\* Texts of the lines of the input files.
LineTexts == {<<"a">>, <<"a", "b">>}

\* A URL of the input files.
UrlText == <<"h", "t", "t", "p", ":", "/", "/", "u">>

Lines ==
    {Line("date", d, <<>>) :
        d \in {[form |-> "ymd", t |-> 0], [form |-> "isoZ", t |-> 1], OtherDate}}
    \cup {Line("text", OtherDate, x) : x \in LineTexts}
    \cup {Line("reply", OtherDate, <<"@", "u">>),
          Line("content_hdr", OtherDate, <<>>),
          Line("urls_hdr", OtherDate, <<>>),
          Line("http", OtherDate, UrlText),
          Line("dash_http", OtherDate, <<"-", " ">> \o UrlText),
          Line("noise", OtherDate, <<>>)}

\* The input files: missing, present but unreadable, or readable lines.
InputFiles ==
    {NoFile, [exists |-> TRUE, readable |-> FALSE, lines |-> <<>>]}
    \cup {[exists |-> TRUE, readable |-> TRUE, lines |-> ls] :
             ls \in SeqsUpTo(Lines, MaxLines)}

\* d[k] = v on a dict.
DictSet(d, k, v) == [x \in DOMAIN d \cup {k} |-> IF x = k THEN v ELSE d[x]]

\* d.get(k, default).
DictGet(d, k, default) == IF k \in DOMAIN d THEN d[k] ELSE default

\* "if current_tweet and 'content' in current_tweet".
HasContent(d) == DOMAIN d # {} /\ "content" \in DOMAIN d

\* tweets.append(Tweet(current_tweet.get('date', ''), current_tweet.get('content', ''), ...))
\* when the dict has content, nothing otherwise.
AppendCurrent(tws, d, now) ==
    IF HasContent(d)
    THEN Append(tws, MakeTweetWith(DictGet(d, "date", OtherDate),
                                   DictGet(d, "content", <<>>),
                                   DictGet(d, "reply_to", <<>>),
                                   DictGet(d, "urls", <<>>), now))
    ELSE tws

\* The dict after one line of the loop of load_from_file.
AfterLine(d, line) ==
    CASE line.kind = "date" -> [date |-> line.date]
      [] line.kind = "reply" -> DictSet(d, "reply_to", line.text)
      [] line.kind \in {"content_hdr", "urls_hdr", "noise"} -> d
      [] line.kind = "http" /\ "urls" \notin DOMAIN d -> DictSet(d, "urls", <<line.text>>)
      [] line.kind = "dash_http" ->
            DictSet(d, "urls",
                    Append(DictGet(d, "urls", <<>>), SubSeq(line.text, 3, Len(line.text))))
      [] OTHER ->
            IF "content" \notin DOMAIN d
            THEN DictSet(d, "content", line.text)
            ELSE DictSet(d, "content", d["content"] \o <<" ">> \o line.text)

\* The command line is parsed and main is about to test the input path.
InitCli ==
    /\ raw = <<>>
    /\ tweets = <<>>
    /\ pc = "idle"
    /\ i = 0
    /\ processed = {}
    /\ duplicates = <<>>
    /\ cleaned_tweets = <<>>
    /\ duplicate_groups = <<>>
    /\ report = NoReport
    /\ input_file \in InputFiles
    /\ args \in [output : BOOLEAN, report : BOOLEAN]
    /\ mainPc = "start"
    /\ pos = 0
    /\ current_tweet = EmptyDict
    /\ written = {}
    /\ exitStatus = -1
    /\ saved = <<>>
    /\ fnCall = NoCall
    /\ fnResult = NoResult
    /\ ScraperIdle

\* main: "if not os.path.exists(args.input_file): print(...); return".
MainCheckExists ==
    /\ mainPc = "start"
    /\ IF input_file.exists
       THEN mainPc' = "open" /\ exitStatus' = exitStatus
       ELSE mainPc' = "exited" /\ exitStatus' = 0
    /\ UNCHANGED <<input_file, args, pos, current_tweet, written>>
    /\ UNCHANGED detectorVars
    /\ UNCHANGED harnessVars
    /\ UNCHANGED scraperVars

\* load_from_file: open and readlines; a failure is caught, printed, and the
\* empty list returned.
LoadOpen ==
    /\ mainPc = "open"
    /\ tweets' = <<>>
    /\ current_tweet' = EmptyDict
    /\ IF input_file.readable
       THEN mainPc' = "lines" /\ pos' = 1
       ELSE mainPc' = "loaded" /\ pos' = pos
    /\ UNCHANGED <<input_file, args, written, exitStatus>>
    /\ UNCHANGED <<raw, pc, i, processed, duplicates, cleaned_tweets,
                   duplicate_groups, report>>
    /\ UNCHANGED harnessVars
    /\ UNCHANGED scraperVars

\* load_from_file: one iteration of "for line in lines".
LoadLine ==
    /\ mainPc = "lines"
    /\ pos <= Len(input_file.lines)
    /\ LET line == input_file.lines[pos]
       IN  /\ \E now \in NowHours :
                  tweets' = IF line.kind = "date"
                            THEN AppendCurrent(tweets, current_tweet, now)
                            ELSE tweets
           /\ current_tweet' = AfterLine(current_tweet, line)
    /\ pos' = pos + 1
    /\ UNCHANGED <<input_file, args, mainPc, written, exitStatus>>
    /\ UNCHANGED <<raw, pc, i, processed, duplicates, cleaned_tweets,
                   duplicate_groups, report>>
    /\ UNCHANGED harnessVars
    /\ UNCHANGED scraperVars

\* load_from_file: "Add last tweet" and return.
LoadEnd ==
    /\ mainPc = "lines"
    /\ pos > Len(input_file.lines)
    /\ \E now \in NowHours : tweets' = AppendCurrent(tweets, current_tweet, now)
    /\ mainPc' = "loaded"
    /\ UNCHANGED <<input_file, args, pos, current_tweet, written, exitStatus>>
    /\ UNCHANGED <<raw, pc, i, processed, duplicates, cleaned_tweets,
                   duplicate_groups, report>>
    /\ UNCHANGED harnessVars
    /\ UNCHANGED scraperVars

\* main: "if not tweets: print(...); return", else call remove_duplicates.
MainAfterLoad ==
    /\ mainPc = "loaded"
    /\ IF tweets = <<>>
       THEN mainPc' = "exited" /\ exitStatus' = 0 /\ pc' = pc
       ELSE mainPc' = "dedup" /\ exitStatus' = exitStatus /\ pc' = "call"
    /\ UNCHANGED <<input_file, args, pos, current_tweet, written>>
    /\ UNCHANGED <<raw, tweets, i, processed, duplicates, cleaned_tweets,
                   duplicate_groups, report>>
    /\ UNCHANGED harnessVars
    /\ UNCHANGED scraperVars

\* main after remove_duplicates returned: save_cleaned_tweets if --output,
\* generate_report if --report, and the end of main.
MainFinish ==
    /\ mainPc = "dedup"
    /\ pc = "returned"
    /\ written' = {f \in {"output", "report"} : args[f]}
    /\ report' = IF args.report
                 THEN MakeReport(tweets, Len(tweets), cleaned_tweets, duplicate_groups)
                 ELSE report
    /\ mainPc' = "exited"
    /\ exitStatus' = 0
    /\ UNCHANGED <<input_file, args, pos, current_tweet>>
    /\ UNCHANGED <<raw, tweets, pc, i, processed, duplicates, cleaned_tweets,
                   duplicate_groups>>
    /\ UNCHANGED harnessVars
    /\ UNCHANGED scraperVars

\* The TypeError raised in find_duplicates is caught nowhere: the
\* interpreter prints the traceback and exits with status 1.
MainUncaught ==
    /\ mainPc = "dedup"
    /\ pc = "raised"
    /\ mainPc' = "exited"
    /\ exitStatus' = 1
    /\ UNCHANGED <<input_file, args, pos, current_tweet, written>>
    /\ UNCHANGED detectorVars
    /\ UNCHANGED harnessVars
    /\ UNCHANGED scraperVars

NextCli ==
    \/ MainCheckExists
    \/ LoadOpen
    \/ LoadLine
    \/ LoadEnd
    \/ MainAfterLoad
    \/ RemoveDuplicatesEntry
    \/ FindAnchorStep
    \/ Resolve
    \/ MainFinish
    \/ MainUncaught

SpecCli == InitCli /\ [][NextCli]_vars

(***************************************************************************)
(* save_cleaned_tweets, and load_from_file on the file it wrote.           *)
(***************************************************************************)
\* Largest number of records in a list handed to save_cleaned_tweets.
MaxSaved == 2

DigitChars == <<"0", "1", "2", "3", "4", "5", "6", "7", "8", "9">>

\* str(n) for a natural number, as formatted by an f-string.
RECURSIVE Str(_)
Str(n) ==
    IF n < 10 THEN <<DigitChars[n + 1]>>
    ELSE Str(n \div 10) \o <<DigitChars[(n % 10) + 1]>>

\* c * n for a character c.
Repeat(c, n) == [k \in 1..n |-> c]

\* The width of the separator line, "=" * 80.
SeparatorWidth == 80

\* datetime.isoformat(): 'YYYY-MM-DDTHH:MM:SS' for a naive datetime, the same
\* with '+00:00' appended for an aware one.  Neither holds a 'Z' and neither
\* is 10 characters long, so _parse_date takes its else branch on both.
IsoFormat(date) ==
    [form |-> IF date.aware THEN "iso_offset" ELSE "iso_naive", t |-> date.t]

\* line.startswith(p).
StartsWith(line, p) == StartsWithAt(line, 1, p)

\* The branch of the loop of load_from_file that a line of text takes, as a
\* Line.  A line starting with "Date:" that is not written as a date line is
\* taken to hold a string of neither date shape.
ReadLine(text) ==
    LET line == Strip(text)
    IN  CASE StartsWith(line, <<"D", "a", "t", "e", ":">>) -> Line("date", OtherDate, <<>>)
          [] StartsWith(line, <<"R", "E", "P", "L", "Y", " ", "T", "O", ":">>) ->
                Line("reply", OtherDate, Strip(SubSeq(line, 11, Len(line))))
          [] line = <<"C", "O", "N", "T", "E", "N", "T", ":">> ->
                Line("content_hdr", OtherDate, <<>>)
          [] StartsWith(line, <<"U", "R", "L", "S", ":">>) -> Line("urls_hdr", OtherDate, <<>>)
          [] StartsWith(line, <<"h", "t", "t", "p">>) -> Line("http", OtherDate, line)
          [] StartsWith(line, <<"-", " ", "h", "t", "t", "p">>) ->
                Line("dash_http", OtherDate, line)
          [] /\ line # <<>>
             /\ ~IsSubstring(<<"=">>, line)
             /\ ~IsSubstring(<<"T", "W", "E", "E", "T">>, line)
             /\ ~IsSubstring(<<"A", "r", "c", "h", "i", "v", "e">>, line) ->
                Line("text", OtherDate, line)
          [] OTHER -> Line("noise", OtherDate, <<>>)

\* The lines written before the records: the title, the count, the separator
\* and a blank line.
WrittenHeader(tws) ==
    <<ReadLine(<<"C", "L", "E", "A", "N", "E", "D", " ", "T", "W", "E", "E", "T", "S",
                 " ", "-", " ", "D", "U", "P", "L", "I", "C", "A", "T", "E", "S", " ",
                 "R", "E", "M", "O", "V", "E", "D">>),
      ReadLine(<<"T", "o", "t", "a", "l", " ", "t", "w", "e", "e", "t", "s", ":", " ">>
               \o Str(Len(tws))),
      ReadLine(Repeat("=", SeparatorWidth)),
      ReadLine(<<>>)>>

\* The lines written for the URLs of a record: nothing for an empty list.
WrittenUrls(urls) ==
    IF urls = <<>> THEN <<>>
    ELSE <<ReadLine(<<>>), ReadLine(<<"U", "R", "L", "S", ":">>)>>
         \o [k \in 1..Len(urls) |-> ReadLine(<<"-", " ">> \o urls[k])]

\* The lines written for record number n of the list.
WrittenRecord(tweet, n) ==
    <<ReadLine(<<"T", "W", "E", "E", "T", " ">> \o Str(n)),
      Line("date", IsoFormat(tweet.date), <<>>),
      ReadLine(<<"R", "E", "P", "L", "Y", " ", "T", "O", ":", " ">> \o tweet.reply_to),
      ReadLine(<<"C", "O", "N", "T", "E", "N", "T", ":">>),
      ReadLine(tweet.content)>>
    \o WrittenUrls(tweet.urls)
    \o <<ReadLine(<<>>), ReadLine(Repeat("=", SeparatorWidth)), ReadLine(<<>>)>>

\* The lines of the file save_cleaned_tweets writes, as load_from_file reads
\* them.
RECURSIVE WrittenRecords(_, _)
WrittenRecords(tws, n) ==
    IF n > Len(tws) THEN <<>>
    ELSE WrittenRecord(tws[n], n) \o WrittenRecords(tws, n + 1)

WrittenLines(tws) == WrittenHeader(tws) \o WrittenRecords(tws, 1)

\* Texts of the records handed to save_cleaned_tweets: plain words, a text
\* with an equals sign, a text that is a mention only, and a mention after a
\* word.
SavedTexts ==
    {<<"a", " ", "b">>, <<"a", "=", "b">>, <<"@", "u">>, <<"a", " ", "@", "u">>}

\* The reply_to arguments: none given, and one name.
SavedReplies == {<<>>, <<"@", "v">>}

\* The urls arguments: none, and one URL.
SavedUrls == {<<>>, <<UrlText>>}

SavedRecords ==
    [date : DateStrs \ {[form |-> "ymd", t |-> 48]}, content : SavedTexts,
     reply_to : SavedReplies, urls : SavedUrls]

\* A caller is about to build a list of Tweet objects, save it and load the
\* saved file.
InitSave ==
    /\ raw \in SeqsUpTo(SavedRecords, MaxSaved)
    /\ tweets = <<>>
    /\ pc = "construct"
    /\ i = 0
    /\ processed = {}
    /\ duplicates = <<>>
    /\ cleaned_tweets = <<>>
    /\ duplicate_groups = <<>>
    /\ report = NoReport
    /\ input_file = NoFile
    /\ args = [output |-> TRUE, report |-> FALSE]
    /\ mainPc = "none"
    /\ pos = 0
    /\ current_tweet = EmptyDict
    /\ written = {}
    /\ exitStatus = -1
    /\ saved = <<>>
    /\ fnCall = NoCall
    /\ fnResult = NoResult
    /\ ScraperIdle

\* saved = [Tweet(r.date, r.content, r.reply_to, r.urls) for r in raw]
ConstructSaved ==
    /\ pc = "construct"
    /\ \E now \in ClockReadings(Len(raw)) :
          saved' = [k \in 1..Len(raw) |->
                       MakeTweetWith(raw[k].date, raw[k].content, raw[k].reply_to,
                                     raw[k].urls, now[k])]
    /\ pc' = "save"
    /\ UNCHANGED <<raw, tweets, i, processed, duplicates, cleaned_tweets,
                   duplicate_groups, report, fnCall, fnResult>>
    /\ UNCHANGED cliVars
    /\ UNCHANGED scraperVars

\* save_cleaned_tweets(saved, output_filename), the file being writable; the
\* caller then calls load_from_file on the file written.
SaveCleanedTweets ==
    /\ pc = "save"
    /\ input_file' = [exists |-> TRUE, readable |-> TRUE, lines |-> WrittenLines(saved)]
    /\ written' = {"output"}
    /\ pc' = "saved"
    /\ mainPc' = "open"
    /\ UNCHANGED <<args, pos, current_tweet, exitStatus>>
    /\ UNCHANGED <<raw, tweets, i, processed, duplicates, cleaned_tweets,
                   duplicate_groups, report>>
    /\ UNCHANGED harnessVars
    /\ UNCHANGED scraperVars

NextSave ==
    \/ ConstructSaved
    \/ SaveCleanedTweets
    \/ LoadOpen
    \/ LoadLine
    \/ LoadEnd

SpecSave == InitSave /\ [][NextSave]_vars

(***************************************************************************)
(* Direct calls of the pure methods calculate_content_similarity and       *)
(* _normalize_content.                                                     *)
(***************************************************************************)
\* Largest length of the short texts handed to calculate_content_similarity.
MaxTextLen == 3

\* Largest number of pieces a text handed to _normalize_content is made of.
MaxPieces == 3

\* The concatenation of a sequence of strings.
RECURSIVE Concat(_)
Concat(ss) == IF ss = <<>> THEN <<>> ELSE Head(ss) \o Concat(Tail(ss))

\* The arguments of calculate_content_similarity: every text over three
\* letters up to MaxTextLen, and TextA with the text one character shorter.
SimilarityTexts ==
    SeqsUpTo({"a", "b", "c"}, MaxTextLen)
    \cup {TextA, SubSeq(TextA, 1, Len(TextA) - 1)}

\* The pieces of the arguments of _normalize_content: the head of a URL, a
\* mention, the tail of a URL, a blank, a letter, and a letter that is folded.
Pieces ==
    {<<"h", "t", "t", "p">>, <<"@", "x">>, <<":", "/", "/", "y">>, <<" ">>, <<"a">>,
     <<"ALEF_MADDA">>}

NormalizeTexts == {Concat(ps) : ps \in SeqsUpTo(Pieces, MaxPieces)}

\* A caller is about to call one of the two methods.
InitFn ==
    /\ raw = <<>>
    /\ tweets = <<>>
    /\ pc = "idle"
    /\ i = 0
    /\ processed = {}
    /\ duplicates = <<>>
    /\ cleaned_tweets = <<>>
    /\ duplicate_groups = <<>>
    /\ report = NoReport
    /\ input_file = NoFile
    /\ args = [output |-> FALSE, report |-> FALSE]
    /\ mainPc = "none"
    /\ pos = 0
    /\ current_tweet = EmptyDict
    /\ written = {}
    /\ exitStatus = -1
    /\ saved = <<>>
    /\ fnCall \in
          {[name |-> "calculate_content_similarity", text1 |-> a, text2 |-> b] :
              a \in SimilarityTexts, b \in SimilarityTexts}
          \cup {[name |-> "_normalize_content", content |-> x] : x \in NormalizeTexts}
    /\ fnResult = NoResult
    /\ ScraperIdle

\* detector.calculate_content_similarity(text1, text2) returns.
CallCalculateContentSimilarity ==
    /\ fnCall.name = "calculate_content_similarity"
    /\ ~fnResult.returned
    /\ fnResult' = [returned |-> TRUE,
                    value |-> CalculateContentSimilarity(fnCall.text1, fnCall.text2)]
    /\ UNCHANGED <<saved, fnCall>>
    /\ UNCHANGED detectorVars
    /\ UNCHANGED cliVars
    /\ UNCHANGED scraperVars

\* tweet._normalize_content(content) returns.
CallNormalizeContent ==
    /\ fnCall.name = "_normalize_content"
    /\ ~fnResult.returned
    /\ fnResult' = [returned |-> TRUE, value |-> NormalizeContent(fnCall.content)]
    /\ UNCHANGED <<saved, fnCall>>
    /\ UNCHANGED detectorVars
    /\ UNCHANGED cliVars
    /\ UNCHANGED scraperVars

NextFn ==
    \/ CallCalculateContentSimilarity
    \/ CallNormalizeContent

SpecFn == InitFn /\ [][NextFn]_vars

(***************************************************************************)
(* The scraper's scroll loop: TwitterScraper.smart_scroll_and_collect and  *)
(* handle_errors (src/main.py).  The browser is the environment: what the  *)
(* page shows and whether a driver call raises is chosen anew at every     *)
(* loop iteration.  all_tweets is held by its length.                      *)
(***************************************************************************)
\* Largest max_scrolls argument.
MaxScrollsArg == 6

\* Largest number of loop iterations that end in "continue" in one run.
MaxRetries == 2

\* Largest number of new tweets one collect_loaded_tweets call returns.
MaxNew == 1

\* "if no_new_count >= 5".
NoNewLimit == 5

\* What handle_errors finds on the page: an error message, whether it is
\* still there after the refresh, a rate-limit message, and whether a driver
\* call of handle_errors raises.
Pages == [error : BOOLEAN, persists : BOOLEAN, rate_limit : BOOLEAN, raises : BOOLEAN]

\* TwitterScraper.handle_errors: its return value.
HandleErrors(page) ==
    IF page.raises THEN FALSE
    ELSE IF page.error THEN ~page.persists
    ELSE IF page.rate_limit THEN FALSE
    ELSE TRUE

\* smart_scroll_and_collect is called.
InitScroll ==
    /\ raw = <<>>
    /\ tweets = <<>>
    /\ pc = "idle"
    /\ i = 0
    /\ processed = {}
    /\ duplicates = <<>>
    /\ cleaned_tweets = <<>>
    /\ duplicate_groups = <<>>
    /\ report = NoReport
    /\ input_file = NoFile
    /\ args = [output |-> FALSE, report |-> FALSE]
    /\ mainPc = "none"
    /\ pos = 0
    /\ current_tweet = EmptyDict
    /\ written = {}
    /\ exitStatus = -1
    /\ saved = <<>>
    /\ fnCall = NoCall
    /\ fnResult = NoResult
    /\ max_scrolls \in 0..MaxScrollsArg
    /\ scroll_num = 0
    /\ no_new_count = 0
    /\ all_tweets = 0
    /\ scrollPc = "start"
    /\ loop_iterations = 0

\* The variables the scroll loop leaves alone.
otherVars == <<raw, tweets, pc, i, processed, duplicates, cleaned_tweets,
               duplicate_groups, report, input_file, args, mainPc, pos,
               current_tweet, written, exitStatus, saved, fnCall, fnResult>>

\* "Collect initial tweets" before the loop.
ScrollCollectInitial ==
    /\ scrollPc = "start"
    /\ \E n \in 0..MaxNew : all_tweets' = all_tweets + n
    /\ scrollPc' = "loop"
    /\ UNCHANGED <<max_scrolls, scroll_num, no_new_count, loop_iterations>>
    /\ UNCHANGED otherVars

\* A loop iteration in which handle_errors returns False: "continue".
ScrollRetry ==
    /\ scrollPc = "loop"
    /\ scroll_num < max_scrolls
    /\ loop_iterations - scroll_num < MaxRetries
    /\ \E page \in Pages : ~HandleErrors(page)
    /\ loop_iterations' = loop_iterations + 1
    /\ UNCHANGED <<max_scrolls, scroll_num, no_new_count, all_tweets, scrollPc>>
    /\ UNCHANGED otherVars

\* A loop iteration in which handle_errors returns True and a driver call of
\* the loop body (execute_script, find_elements) raises: the exception is
\* caught and the loop continues.
ScrollRaises ==
    /\ scrollPc = "loop"
    /\ scroll_num < max_scrolls
    /\ loop_iterations - scroll_num < MaxRetries
    /\ \E page \in Pages : HandleErrors(page)
    /\ loop_iterations' = loop_iterations + 1
    /\ UNCHANGED <<max_scrolls, scroll_num, no_new_count, all_tweets, scrollPc>>
    /\ UNCHANGED otherVars

\* A loop iteration that finds an end-of-results marker: "break".
ScrollEnd ==
    /\ scrollPc = "loop"
    /\ scroll_num < max_scrolls
    /\ \E page \in Pages : HandleErrors(page)
    /\ loop_iterations' = loop_iterations + 1
    /\ scrollPc' = "returned"
    /\ UNCHANGED <<max_scrolls, scroll_num, no_new_count, all_tweets>>
    /\ UNCHANGED otherVars

\* A loop iteration that scrolls and collects n new tweets.
ScrollRound ==
    /\ scrollPc = "loop"
    /\ scroll_num < max_scrolls
    /\ \E page \in Pages : HandleErrors(page)
    /\ loop_iterations' = loop_iterations + 1
    /\ \E n \in 0..MaxNew :
          /\ all_tweets' = all_tweets + n
          /\ no_new_count' = IF n = 0 THEN no_new_count + 1 ELSE 0
    /\ IF no_new_count' >= NoNewLimit
       THEN scrollPc' = "returned" /\ scroll_num' = scroll_num
       ELSE scrollPc' = scrollPc /\ scroll_num' = scroll_num + 1
    /\ UNCHANGED max_scrolls
    /\ UNCHANGED otherVars

\* The loop condition "scroll_num < max_scrolls" fails: return all_tweets.
ScrollExit ==
    /\ scrollPc = "loop"
    /\ ~(scroll_num < max_scrolls)
    /\ scrollPc' = "returned"
    /\ UNCHANGED <<max_scrolls, scroll_num, no_new_count, all_tweets, loop_iterations>>
    /\ UNCHANGED otherVars

NextScroll ==
    \/ ScrollCollectInitial
    \/ ScrollRetry
    \/ ScrollRaises
    \/ ScrollEnd
    \/ ScrollRound
    \/ ScrollExit

SpecScroll == InitScroll /\ [][NextScroll]_vars

(***************************************************************************)
(* Vocabulary of the claims, stated from the spec and not from the         *)
(* operators above.                                                        *)
(***************************************************************************)
\* remove_duplicates has returned its (kept, clusters) result.
Returned == pc \in {"returned", "reported"}

\* The timestamp of record k.
Ts(k) == tweets[k].date.t

\* Records a and b can be compared and lie within the date window.
WithinWindow(a, b) ==
    /\ tweets[a].date.aware = tweets[b].date.aware
    /\ (Ts(a) - Ts(b)) \in (-DateWindowHours)..DateWindowHours

\* The score of the contents of records a and b is exactly n/100.
ScoreIs(a, b, n) ==
    LET r == Similarity(tweets[a].content, tweets[b].content)
    IN  r[1] * 100 = n * r[2]

\* The score of the contents of records a and b reaches the threshold.
ReachesThreshold(a, b) ==
    LET r == Similarity(tweets[a].content, tweets[b].content)
    IN  r[1] * 100 >= ContentThreshold * r[2]

\* The members of cluster g that the kept list holds.
KeptOf(g) == Range(duplicate_groups[g]) \cap Range(cleaned_tweets)

\* The representative the spec prescribes for cluster g: the member with the
\* earliest timestamp, the smallest input index among those.
Representative(g) ==
    CHOOSE m \in Range(duplicate_groups[g]) :
        \A o \in Range(duplicate_groups[g]) :
            Ts(m) < Ts(o) \/ (Ts(m) = Ts(o) /\ m <= o)

\* The members of a cluster other than its prescribed representative.
NonRepresentatives ==
    UNION {Range(duplicate_groups[g]) \ {Representative(g)} :
           g \in 1..Len(duplicate_groups)}

\* The indices that are a member of some cluster.
Clustered == UNION {Range(duplicate_groups[g]) : g \in 1..Len(duplicate_groups)}

RECURSIVE SumOfSizesLessOne(_)
SumOfSizesLessOne(groups) ==
    IF groups = <<>> THEN 0
    ELSE (Len(Head(groups)) - 1) + SumOfSizesLessOne(Tail(groups))

\* The ascending sequence of a set of indices.
Ascending(S) ==
    CHOOSE q \in [1..Cardinality(S) -> S] :
        \A x, y \in 1..Cardinality(S) : x < y => q[x] < q[y]

(***************************************************************************)
(* C1.  The chain scenario.                                                *)
(***************************************************************************)
\* Three records A, B, C in input order, all within the window of each
\* other, A the earliest, scores 0.95 (A,B), 0.90 (B,C), 0.40 (A,C).
ChainScenario ==
    /\ Len(tweets) = 3
    /\ WithinWindow(1, 2) /\ WithinWindow(2, 3) /\ WithinWindow(1, 3)
    /\ Ts(1) <= Ts(2) /\ Ts(1) <= Ts(3)
    /\ ScoreIs(1, 2, 95) /\ ScoreIs(2, 3, 90) /\ ScoreIs(1, 3, 40)

\* C1 as claimed: in the chain scenario find_duplicates emits exactly one
\* cluster {A,B,C} and remove_duplicates keeps A and removes B and C.
C1_ChainOneClusterOfThree ==
    (Returned /\ ChainScenario) =>
        /\ duplicate_groups = << <<1, 2, 3>> >>
        /\ cleaned_tweets = <<1>>

\* C1 as amended: in the chain scenario find_duplicates emits exactly one
\* cluster {A,B}, C scoring 0.40 against the anchor A and B never being
\* compared with C; remove_duplicates keeps A and C and removes B.
C1_ChainAnchorRelative ==
    (Returned /\ ChainScenario) =>
        /\ duplicate_groups = << <<1, 2>> >>
        /\ cleaned_tweets = <<1, 3>>

C1_Witness == Returned /\ ChainScenario

(***************************************************************************)
(* C2.  The membership rule.                                               *)
(***************************************************************************)
\* The later records the rule admits to the cluster of anchor a, given the
\* claimed set at the start of a's iteration.
Admitted(a) ==
    {j \in (a + 1)..Len(tweets) :
        /\ j \notin processed
        /\ Abs(Ts(a) - Ts(j)) <= DateWindowHours
        /\ ReachesThreshold(a, j)}

\* Two records with identical text whose timestamps differ by more than the
\* window.
IdenticalButApart ==
    /\ Len(tweets) = 2
    /\ tweets[1].content = tweets[2].content
    /\ tweets[1].date.aware = tweets[2].date.aware
    /\ Abs(Ts(1) - Ts(2)) > DateWindowHours

\* C2: an iteration of find_duplicates for an unclaimed anchor i that
\* completes adds to i's cluster, and marks claimed, exactly the later
\* records j that are unclaimed, have |timestamp(i) - timestamp(j)| <= window
\* and similarity >= threshold (equality counting in both); two records with
\* identical text more than the window apart are not clustered and both kept.
C2_MembershipRule ==
    [][/\ (pc = "find" /\ i <= Len(tweets) /\ i \notin processed /\ pc' = "find") =>
            IF Admitted(i) = {}
            THEN duplicates' = duplicates /\ processed' = processed
            ELSE /\ duplicates' = Append(duplicates, <<i>> \o Ascending(Admitted(i)))
                 /\ processed' = processed \cup Admitted(i) \cup {i}
       /\ (Returned /\ IdenticalButApart =>
              duplicate_groups = <<>> /\ cleaned_tweets = <<1, 2>>)'
      ]_vars

\* A record 48 hours from the anchor with the anchor's text is left out, and a
\* record exactly the window away scoring exactly the threshold is taken in.
C2_Witness ==
    /\ Returned
    /\ Len(tweets) = 3
    /\ tweets[1].content = tweets[2].content
    /\ tweets[1].content # <<>>
    /\ Abs(Ts(1) - Ts(2)) = 2 * DateWindowHours
    /\ Abs(Ts(1) - Ts(3)) = DateWindowHours
    /\ ScoreIs(1, 3, ContentThreshold)
    /\ duplicate_groups = << <<1, 3>> >>
    /\ cleaned_tweets = <<1, 2>>

(***************************************************************************)
(* C3.  Representative selection.                                          *)
(***************************************************************************)
\* C3: of every emitted cluster exactly one member is kept; its timestamp is
\* at most that of every removed member; among the members sharing the
\* earliest timestamp it is the one of smallest input index; every other
\* member is removed.
C3_RepresentativeSelection ==
    Returned =>
        \A g \in 1..Len(duplicate_groups) :
            /\ Cardinality(KeptOf(g)) = 1
            /\ \A k \in KeptOf(g) :
                  \A m \in Range(duplicate_groups[g]) \ {k} :
                      /\ m \notin Range(cleaned_tweets)
                      /\ Ts(k) <= Ts(m)
                      /\ Ts(k) = Ts(m) => k < m

\* A cluster of three whose anchor is the latest and whose two other members
\* share the earliest timestamp.
C3_Witness ==
    /\ Returned
    /\ \E g \in 1..Len(duplicate_groups) :
          /\ Len(duplicate_groups[g]) = 3
          /\ Ts(duplicate_groups[g][2]) = Ts(duplicate_groups[g][3])
          /\ Ts(duplicate_groups[g][2]) < Ts(duplicate_groups[g][1])
          /\ KeptOf(g) = {duplicate_groups[g][2]}

(***************************************************************************)
(* C4.  Date window of a cluster.                                          *)
(***************************************************************************)
\* C4 as claimed: every member of an emitted cluster is within the date
\* window of the member remove_duplicates retains.
C4_WithinWindowOfRepresentative ==
    Returned =>
        \A g \in 1..Len(duplicate_groups) :
            \A k \in KeptOf(g) : \A m \in Range(duplicate_groups[g]) :
                Abs(Ts(m) - Ts(k)) <= DateWindowHours

\* C4 as amended: every member of an emitted cluster is within the date
\* window of the cluster's anchor (its first member); of the retained member
\* it is within twice the window.
C4_WithinWindowOfAnchor ==
    Returned =>
        \A g \in 1..Len(duplicate_groups) :
            \A m \in Range(duplicate_groups[g]) :
                /\ Abs(Ts(m) - Ts(duplicate_groups[g][1])) <= DateWindowHours
                /\ \A k \in KeptOf(g) : Abs(Ts(m) - Ts(k)) <= 2 * DateWindowHours

\* A cluster whose retained member is not the anchor and lies further than
\* the window from another member.
C4_Witness ==
    /\ Returned
    /\ \E g \in 1..Len(duplicate_groups) :
          \E k \in KeptOf(g) : \E m \in Range(duplicate_groups[g]) :
              /\ k # duplicate_groups[g][1]
              /\ Abs(Ts(m) - Ts(k)) > DateWindowHours

(***************************************************************************)
(* C5.  Conservation.                                                      *)
(***************************************************************************)
\* C5: the kept indices and the non-representative cluster members partition
\* the input indices, so the number kept plus the number of
\* non-representative members is the original count; the report's
\* removed_count is that number.
C5_Conservation ==
    Returned =>
        /\ Range(cleaned_tweets) \cap NonRepresentatives = {}
        /\ Range(cleaned_tweets) \cup NonRepresentatives = 1..Len(tweets)
        /\ Len(cleaned_tweets) + Cardinality(NonRepresentatives) = Len(tweets)
        /\ Len(cleaned_tweets) + SumOfSizesLessOne(duplicate_groups) = Len(tweets)
        /\ pc = "reported" =>
              /\ report.removed_count = Cardinality(NonRepresentatives)
              /\ report.cleaned_count + report.removed_count = report.original_count
              /\ report.original_count = Len(tweets)

\* A reported batch with both kept and removed records.
C5_Witness ==
    /\ pc = "reported"
    /\ Len(tweets) = 3
    /\ Len(cleaned_tweets) = 2
    /\ report.removed_count = 1

(***************************************************************************)
(* C6.  Cluster size floor.                                                *)
(***************************************************************************)
\* C6: every cluster emitted by find_duplicates has at least 2 members, and
\* every record that is a member of no emitted cluster is in the kept list.
C6_ClusterSizeFloor ==
    /\ \A g \in 1..Len(duplicates) : Len(duplicates[g]) >= 2
    /\ Returned =>
          /\ \A g \in 1..Len(duplicate_groups) : Len(duplicate_groups[g]) >= 2
          /\ (1..Len(tweets)) \ Clustered \subseteq Range(cleaned_tweets)

\* A batch with a cluster and a record outside every cluster.
C6_Witness ==
    /\ Returned
    /\ Len(duplicate_groups) = 1
    /\ (1..Len(tweets)) \ Clustered # {}

(***************************************************************************)
(* C7.  The report against the resolution.                                 *)
(***************************************************************************)
\* The members of cluster g that remove_duplicates removed, in cluster order.
RECURSIVE RemovedRenderings(_, _)
RemovedRenderings(group, k) ==
    IF k > Len(group) THEN <<>>
    ELSE (IF group[k] \in Range(cleaned_tweets) THEN <<>>
          ELSE <<StrTweet(tweets[group[k]])>>)
         \o RemovedRenderings(group, k + 1)

\* C7: in the report the record rendered as 'kept_tweet' of a cluster is the
\* member remove_duplicates kept, the records rendered under
\* 'removed_tweets' are the members it removed, and clusters are numbered
\* 1, 2, ... in discovery order.
C7_ReportMatchesResolution ==
    pc = "reported" =>
        \A g \in 1..Len(duplicate_groups) :
            /\ report.duplicate_details[g].group_id = g
            /\ \A k \in KeptOf(g) :
                  report.duplicate_details[g].kept_tweet = StrTweet(tweets[k])
            /\ report.duplicate_details[g].removed_tweets
                  = RemovedRenderings(duplicate_groups[g], 1)

(***************************************************************************)
(* C8.  No per-record property aborts the batch.                           *)
(***************************************************************************)
\* C8: for a batch whose date strings are UTC-marked date-times, plain
\* calendar dates and unparsable strings in any mixture, Tweet construction
\* and remove_duplicates complete without raising.
C8_NeverRaises == pc # "raised"

(***************************************************************************)
(* C9.  A missing or unreadable input path.                                *)
(***************************************************************************)
\* C9: when the input path is missing or unreadable the run stops before any
\* processing, writes neither the cleaned-records file nor the report file,
\* and ends with a non-zero exit status.
C9_FatalInputExit ==
    (mainPc = "exited" /\ (~input_file.exists \/ ~input_file.readable)) =>
        /\ pc = "idle"
        /\ written = {}
        /\ exitStatus # 0

(***************************************************************************)
(* C10.  No record is dropped on load.                                     *)
(***************************************************************************)
\* The record blocks of the input file: its 'Date:' lines.
RecordBlocks == {k \in 1..Len(input_file.lines) : input_file.lines[k].kind = "date"}

\* C10: every record block of the input file yields one record in the list
\* load_from_file returns: the number of loaded records is the number of
\* record blocks.
C10_EveryBlockLoaded ==
    (mainPc = "loaded" /\ input_file.readable) =>
        Len(tweets) = Cardinality(RecordBlocks)

(***************************************************************************)
(* C11.  Round trip of the content through the saved file.                 *)
(***************************************************************************)
\* load_from_file has returned the list read from the file written by
\* save_cleaned_tweets.
Reloaded == pc = "saved" /\ mainPc = "loaded"

\* C11: for every record of the list written by save_cleaned_tweets, the
\* list loaded from the written file holds a record with the same normalised
\* comparison text and the same content hash.
C11_ContentRoundTrip ==
    Reloaded =>
        \A k \in 1..Len(saved) :
            \E m \in 1..Len(tweets) :
                /\ tweets[m].content = saved[k].content
                /\ GetContentHash(tweets[m]) = GetContentHash(saved[k])

(***************************************************************************)
(* C12.  The saved file is re-consumable.                                  *)
(***************************************************************************)
\* C12: loading the file written for a list of N records yields exactly N
\* records, in the same order, each with the timestamp, the reply-to and the
\* URL list of the record written.
C12_ReconsumableOutput ==
    Reloaded =>
        /\ Len(tweets) = Len(saved)
        /\ \A k \in 1..Len(saved) :
              /\ tweets[k].date = saved[k].date
              /\ tweets[k].reply_to = saved[k].reply_to
              /\ tweets[k].urls = saved[k].urls

(***************************************************************************)
(* C13.  Determinism of the fingerprints.                                  *)
(***************************************************************************)
\* C13: two Tweet objects constructed from the same raw record (same date
\* string, same text), at whatever moments, have the same signature and the
\* same content hash, also when the date string is unparsable.
C13_FingerprintDeterminism ==
    pc # "construct" =>
        \A a, b \in 1..Len(tweets) :
            raw[a] = raw[b] =>
                /\ tweets[a].signature = tweets[b].signature
                /\ GetContentHash(tweets[a]) = GetContentHash(tweets[b])

(***************************************************************************)
(* C14.  Symmetry of the similarity score.                                 *)
(***************************************************************************)
\* calculate_content_similarity has returned from a direct call.
SimilarityReturned ==
    fnCall.name = "calculate_content_similarity" /\ fnResult.returned

\* Two scores, each a pair <<numerator, denominator>>, are the same number.
SameScore(r, q) == r[1] * q[2] = q[1] * r[2]

\* C14: calculate_content_similarity(a, b) equals
\* calculate_content_similarity(b, a) for all strings a and b.
C14_SimilaritySymmetric ==
    SimilarityReturned =>
        SameScore(fnResult.value,
                  CalculateContentSimilarity(fnCall.text2, fnCall.text1))

(***************************************************************************)
(* C15.  The substring floor of the similarity score.                      *)
(***************************************************************************)
\* a is a non-empty substring of b.
Occurs(a, b) ==
    /\ a # <<>>
    /\ \E k \in 0..(Len(b) - Len(a)) : SubSeq(b, k + 1, k + Len(a)) = a

\* Score r is at least score q.
AtLeast(r, q) == r[1] * q[2] >= q[1] * r[2]

\* The floor of the override, 0.9.
NineTenths == <<9, 10>>

\* C15: when one argument is a non-empty substring of the other, in either
\* argument order, the score is at least 0.9 and is max(ratio, 0.9); the
\* score is never below the plain ratio 2*matches/(len(a)+len(b)); it is 0
\* when either argument is empty; and it always lies in [0, 1].
C15_SubstringFloor ==
    SimilarityReturned =>
        LET a == fnCall.text1
            b == fnCall.text2
            r == fnResult.value
        IN  /\ r[2] > 0 /\ 0 <= r[1] /\ r[1] <= r[2]
            /\ (a = <<>> \/ b = <<>>) => r[1] = 0
            /\ (a # <<>> /\ b # <<>>) =>
                  /\ AtLeast(r, Ratio(a, b))
                  /\ (Occurs(a, b) \/ Occurs(b, a)) =>
                        /\ AtLeast(r, NineTenths)
                        /\ SameScore(r, IF AtLeast(Ratio(a, b), NineTenths)
                                        THEN Ratio(a, b) ELSE NineTenths)

\* The second argument is a proper substring of the first, the plain ratio is
\* below 0.9, and the score returned is 0.9.
C15_Witness ==
    /\ SimilarityReturned
    /\ Occurs(fnCall.text2, fnCall.text1)
    /\ fnCall.text1 # fnCall.text2
    /\ ~AtLeast(Ratio(fnCall.text1, fnCall.text2), NineTenths)
    /\ SameScore(fnResult.value, NineTenths)

(***************************************************************************)
(* C16.  Idempotence of the text normalisation.                            *)
(***************************************************************************)
\* C16: normalising the text _normalize_content returned gives that text
\* again.
C16_NormalizeIdempotent ==
    (fnCall.name = "_normalize_content" /\ fnResult.returned) =>
        NormalizeContent(fnResult.value) = fnResult.value

(***************************************************************************)
(* C17.  Order of the kept list.                                           *)
(***************************************************************************)
\* C17: the kept list holds the kept records in their input order: of two
\* kept records the one with the smaller input index comes first, whichever
\* cluster each came from.
C17_KeptInInputOrder ==
    Returned =>
        \A x, y \in 1..Len(cleaned_tweets) :
            x < y => cleaned_tweets[x] < cleaned_tweets[y]

\* At least two records are kept; one is the representative of a cluster
\* whose anchor was removed, and another kept record follows it.
C17_Witness ==
    /\ Returned
    /\ Len(cleaned_tweets) >= 2
    /\ \E g \in 1..Len(duplicate_groups) :
          /\ duplicate_groups[g][1] \notin Range(cleaned_tweets)
          /\ \E k \in KeptOf(g) : \E o \in Range(cleaned_tweets) : o > k

(***************************************************************************)
(* C18.  Clusters of one find_duplicates call are disjoint.                *)
(***************************************************************************)
\* The indices that are a member of some cluster of the list groups.
MembersOf(groups) == UNION {Range(groups[g]) : g \in 1..Len(groups)}

\* No index is in two clusters of the list, nor twice in one.
PairwiseDisjoint(groups) ==
    /\ \A g, h \in 1..Len(groups) :
          g # h => Range(groups[g]) \cap Range(groups[h]) = {}
    /\ \A g \in 1..Len(groups) : Cardinality(Range(groups[g])) = Len(groups[g])

\* C18: after any number of anchor iterations of find_duplicates every index
\* is in at most one cluster; an iteration leaves the earlier clusters as
\* they are, and the cluster it emits has an unclaimed anchor and holds no
\* index claimed before; a record passed over as an anchor without a cluster
\* is in no later cluster.
C18_ClustersDisjoint ==
    [][/\ PairwiseDisjoint(duplicates')
       /\ (pc = "find" /\ pc' = "find") =>
             /\ \A g \in 1..Len(duplicates) : duplicates'[g] = duplicates[g]
             /\ Len(duplicates') > Len(duplicates) =>
                   /\ duplicates'[Len(duplicates')][1] = i
                   /\ i \notin processed
                   /\ Range(duplicates'[Len(duplicates')]) \cap processed = {}
             /\ \A k \in 1..(i - 1) :
                   k \notin MembersOf(duplicates) => k \notin MembersOf(duplicates')
      ]_vars

\* The third record was claimed by the first; the second record, left
\* without a cluster, is within the window of the third and scores at or
\* above the threshold against it, and yet the third is in one cluster only.
C18_Witness ==
    /\ Returned
    /\ Len(tweets) = 3
    /\ duplicate_groups = << <<1, 3>> >>
    /\ WithinWindow(2, 3)
    /\ ReachesThreshold(2, 3)

(***************************************************************************)
(* C19.  One pass and the fixed point.                                     *)
(***************************************************************************)
\* Kept records a < b that a second pass would cluster: within the date
\* window, with a score at or above the threshold.
StillDuplicates(a, b) ==
    /\ a < b
    /\ WithinWindow(a, b)
    /\ ReachesThreshold(a, b)

\* Record k was claimed by no anchor: it is in no cluster, or it is the first
\* member (the anchor) of its cluster.
NeverClaimed(k) ==
    \/ k \notin Clustered
    \/ \E g \in 1..Len(duplicate_groups) : duplicate_groups[g][1] = k

\* C19 as claimed: the kept list holds no two records i < j that are within
\* the date window and have similarity >= threshold, so a second pass over the
\* kept list emits no cluster and removes nothing.
C19_OnePassFixedPoint ==
    Returned =>
        \A a, b \in Range(cleaned_tweets) : ~StillDuplicates(a, b)

\* C19 as amended: the kept list holds no two such records among the records
\* that no anchor claimed (the unclustered records and the anchors); a kept
\* record that is a non-anchor member of its cluster may still be a duplicate
\* of another kept record.
C19_NoDuplicateAmongUnclaimed ==
    Returned =>
        \A a, b \in Range(cleaned_tweets) :
            (NeverClaimed(a) /\ NeverClaimed(b)) => ~StillDuplicates(a, b)

\* A cluster was resolved, and two kept records that no anchor claimed lie
\* within the window of each other, both with text.
C19_Witness ==
    /\ Returned
    /\ duplicate_groups # <<>>
    /\ \E a, b \in Range(cleaned_tweets) :
          /\ a < b
          /\ NeverClaimed(a) /\ NeverClaimed(b)
          /\ WithinWindow(a, b)
          /\ tweets[a].content # <<>> /\ tweets[b].content # <<>>

(***************************************************************************)
(* C20.  Termination of the scraper's scroll loop.                         *)
(***************************************************************************)
\* C20: smart_scroll_and_collect returns after at most max_scrolls loop
\* iterations, or earlier on an end-of-results marker or after 5 consecutive
\* rounds without a new tweet, also when handle_errors keeps returning False
\* or a driver call keeps raising: the loop never begins more than
\* max_scrolls iterations, and never goes on after the fifth empty round.
C20_ScrollLoopBounded ==
    /\ loop_iterations <= max_scrolls
    /\ no_new_count >= NoNewLimit => scrollPc = "returned"
====
